---- MODULE Spec2Model ----
(***************************************************************************)
(* A model of flask/app/hello.py of bgp-dashboard: the longest-prefix      *)
(* resolver find_network, the statistics functions computed from the       *)
(* MongoDB collection bgp.bgp, and the Stats holder that two background    *)
(* tasks refresh while request handlers read it.                           *)
(***************************************************************************)
EXTENDS Integers, Sequences, FiniteSets, TLC

VARIABLES
    table,      \* the documents of the collection bgp.bgp (a set of routes)
    now,        \* time.time(), in whole seconds since the process started
    dnsUp,      \* whether the cymru TXT lookups of asn_name_query answer
    myStats,    \* the attributes of the module-level Stats object
    pc,         \* per thread: the statement of its refresh method it is at,
                \* 0 when it executes none, -k when statement k raised
    ticks,      \* per scheduler job: interval ticks that have come due
    flaps,      \* changes of the resolver's state so far
    rd,         \* the request handler reading myStats (get_json / get_data)
    last,       \* per task: history of its latest runs (see HistoryAfter)
    req,        \* the request of the lookup endpoint /bgp/api/v1.0/ip/<ip>
    res         \* what find_network returned to it

vars == <<table, now, dnsUp, myStats, pc, ticks, flaps, rd, last, req, res>>

(***************************************************************************)
(* Bounds of the model.                                                    *)
(***************************************************************************)
MaxTableSize == 2   \* documents in the collection
MaxEvents == 2      \* interval ticks, seconds passed and changes of the
                    \* resolver's state, taken together
MaxReads == 1       \* requests served by the stats endpoints

(***************************************************************************)
(* Python values.  None and a raised exception are records of their own,   *)
(* and so is every value an attribute of Stats holds, so that they         *)
(* compare with each other.  A field of a document that may be null holds  *)
(* <<>> for null and <<x>> for the value x.                                *)
(***************************************************************************)
None == [none |-> TRUE]
Raised == [raised |-> TRUE]
Null == <<>>
Some(x) == <<x>>
PyInt(n) == [int |-> n]
PyFloat(n) == [float |-> n]
PyList(s) == [list |-> s]
PyStr(s) == [str |-> s]

(***************************************************************************)
(* Addresses and networks.  An address is the set of the positions of its  *)
(* one bits, position 1 being the most significant; a network, and the     *)
(* prefix string "a.b.c.d/len" that str() makes of it, is the version,     *)
(* the network address and the mask length.                                *)
(***************************************************************************)
max_prefixlen(version) == IF version = 4 THEN 32 ELSE 128

\* ipaddress.ip_address(ip): ValueError for text that is no address.
ip_address(ip) ==
    IF ip.v \in {4, 6} THEN [version |-> ip.v, bits |-> ip.bits] ELSE Raised

\* ipaddress.ip_network(address): the host network, /32 or /128.
ip_network(a) ==
    [v |-> a.version, addr |-> a.bits, len |-> max_prefixlen(a.version)]

\* IPv4Network.supernet(new_prefix=n): the network itself when it is /0,
\* ValueError when n is longer than the network's mask or negative.
supernet(net, new_prefix) ==
    IF net.len = 0 THEN net
    ELSE IF new_prefix > net.len \/ new_prefix < 0 THEN Raised
    ELSE [v |-> net.v,
          addr |-> {b \in net.addr : b <= new_prefix},
          len |-> new_prefix]

\* A document of the collection; _id orders the documents as a cursor
\* returns them.
Route(id, prefix, origin_as, next_hop_asn, nexthop, as_path, communities) ==
    [_id |-> id, prefix |-> prefix, ip_version |-> prefix.v,
     origin_as |-> origin_as,
     next_hop_asn |-> next_hop_asn, nexthop |-> nexthop,
     as_path |-> as_path, communities |-> communities]

\* db.bgp.find_one({'prefix': network}): the document or None; the driver
\* raises when the store cannot be reached (down).
find_one(tbl, network, down) ==
    IF down THEN Raised
    ELSE IF \E d \in tbl : d.prefix = network
         THEN CHOOSE d \in tbl : d.prefix = network
         ELSE None

(***************************************************************************)
(* find_network(ip, netmask) on the collection tbl; fails is the set of    *)
(* netmask values at whose probe the store raises.                         *)
(***************************************************************************)
\* The bug of a resolver that gives up one mask early: /0 is never probed.
last_mask_off_by_one(netmask) == netmask = 1

\* elif netmask == 0: return(None)
last_mask(netmask) == netmask = 0

\* The bug of a resolver without the try/except: the exception leaves it.
except_missing(r) == r

\* except: return(None)
except_return_None(r) == IF r = Raised THEN None ELSE r

\* What one call does before it returns or calls itself: Raised, None, the
\* document found, or Recurse for the call find_network(ip, netmask-1).
Recurse == [recurse |-> TRUE]

probe(ip, netmask, tbl, fails) ==
    IF ip_address(ip) = Raised THEN Raised
    ELSE IF ip_address(ip).version \in {4, 6} THEN
        LET new_prefix == IF ip_address(ip).version = 4
                          THEN netmask ELSE netmask + 32
            network == supernet(ip_network(ip_address(ip)), new_prefix)
        IN  IF network = Raised THEN Raised
            ELSE LET result == find_one(tbl, network, netmask \in fails)
                 IN  IF result = Raised THEN Raised
                     ELSE IF result # None THEN result
                     ELSE IF last_mask(netmask) THEN None
                     ELSE Recurse
    ELSE None

RECURSIVE find_network(_, _, _, _)
find_network(ip, netmask, tbl, fails) ==
    LET r == probe(ip, netmask, tbl, fails)
    IN  except_return_None(IF r = Recurse
                           THEN find_network(ip, netmask - 1, tbl, fails)
                           ELSE r)

(***************************************************************************)
(* Queries on the collection.                                              *)
(***************************************************************************)
\* A cursor over docs: the documents in their natural order.
RECURSIVE find(_)
find(docs) ==
    IF docs = {} THEN <<>>
    ELSE LET d == CHOOSE d \in docs : \A e \in docs : d._id <= e._id
         IN  <<d>> \o find(docs \ {d})

\* The values of a sequence, each once, in the order of first occurrence.
RECURSIVE unique(_)
unique(s) ==
    IF s = <<>> THEN <<>>
    ELSE LET front == unique(SubSeq(s, 1, Len(s) - 1))
             x == s[Len(s)]
         IN  IF \E i \in 1..Len(front) : front[i] = x
             THEN front ELSE Append(front, x)

RECURSIVE flatten(_)
flatten(ss) == IF ss = <<>> THEN <<>> ELSE Head(ss) \o flatten(Tail(ss))

\* db.bgp.distinct(field) for a scalar field (a null value is a value).
distinct(tbl, field) ==
    unique([i \in 1..Cardinality(tbl) |-> find(tbl)[i][field]])

\* db.bgp.distinct('communities'): the elements of the arrays.
distinct_communities(tbl) ==
    unique(flatten([i \in 1..Cardinality(tbl) |-> find(tbl)[i].communities]))

\* db.bgp.find({'next_hop_asn': asn, 'ip_version': version}).count()
count_asn_version(tbl, asn, version) ==
    Cardinality({d \in tbl : d.next_hop_asn = asn /\ d.ip_version = version})

\* A $regex match of pattern in text: pattern occurs in it somewhere.
regex_search(pattern, text) ==
    \E i \in 0..(Len(text) - Len(pattern)) :
        SubSeq(text, i + 1, i + Len(pattern)) = pattern

RECURSIVE sum_seq(_)
sum_seq(s) == IF s = <<>> THEN 0 ELSE Head(s) + sum_seq(Tail(s))

(***************************************************************************)
(* Names.                                                                  *)
(***************************************************************************)
_DEFAULT_ASN == 3701
_CUSTOMER_BGP_COMMUNITY == <<"3", "7", "0", "1", ":", "3", "7", "0">>

\* The name field of the TXT record of as<asn>.asn.cymru.com.
cymru_name(asn) ==
    CASE asn = 174 -> "COGENT-174"
      [] asn = 3356 -> "LEVEL3"
      [] asn = 3701 -> "NERONET"
      [] OTHER -> "UNALLOCATED"

\* asn_name_query(asn), asn being <<>> for None; dns tells whether the
\* resolver answers.
asn_name_query(asn, dns) ==
    LET n == IF asn = Null THEN _DEFAULT_ASN ELSE asn[1]
    IN  IF 64512 <= n /\ n <= 65534 THEN "RFC6996 - Private Use ASN"
        ELSE IF dns THEN cymru_name(n)
        ELSE "(DNS Error)"

\* epoch_to_date(epoch): '%Y-%m-%d %H:%M:%S %Z' of gmtime(epoch), as the
\* day and the hour, minute and second of the day.
epoch_to_date(epoch) ==
    <<epoch \div 86400, (epoch % 86400) \div 3600, (epoch % 3600) \div 60,
      epoch % 60, "UTC">>

(***************************************************************************)
(* The statistics.  A number with three decimals is held in thousandths.   *)
(***************************************************************************)
\* peer_count(): len(db.bgp.distinct('next_hop_asn')).
peer_count(tbl) == Len(distinct(tbl, "next_hop_asn"))

prefix_count(tbl, version) ==
    Cardinality({d \in tbl : d.ip_version = version})

nexthop_ip_count(tbl) == Len(distinct(tbl, "nexthop"))

\* len(set(prefix['as_path'])), or 0 where the try/except passes.
as_path_hops(d) ==
    IF d.as_path = Null THEN 0
    ELSE Cardinality({d.as_path[1][i] : i \in 1..Len(d.as_path[1])})

\* round(x, 3) of the quotient a / b, in thousandths.
round3(a, b) == (2 * 1000 * a + b) \div (2 * b)

avg_as_path_length(tbl) ==
    LET all_prefixes == find(tbl)
        as_path_counter ==
            sum_seq([i \in 1..Len(all_prefixes) |->
                        as_path_hops(all_prefixes[i])])
    IN  IF Len(all_prefixes) = 0 THEN Raised     \* ZeroDivisionError
        ELSE PyFloat(round3(as_path_counter, Len(all_prefixes)))

\* sorted(items, key=count, reverse=True): stable, greatest count first.
RECURSIVE sorted_by_count(_)
sorted_by_count(items) ==
    IF items = <<>> THEN <<>>
    ELSE LET i == CHOOSE i \in 1..Len(items) :
                    /\ \A j \in 1..Len(items) : items[j][2] <= items[i][2]
                    /\ \A j \in 1..(i - 1) : items[j][2] < items[i][2]
             rest == [k \in 1..(Len(items) - 1) |->
                        IF k < i THEN items[k] ELSE items[k + 1]]
         IN  <<items[i]>> \o sorted_by_count(rest)

\* take(n, iterable)
take(n, s) == SubSeq(s, 1, IF Len(s) < n THEN Len(s) ELSE n)

top_peers(count, tbl, dns) ==
    LET asns == distinct(tbl, "next_hop_asn")
        peers_items == [i \in 1..Len(asns) |->
            <<asns[i],
              Cardinality({d \in tbl : d.next_hop_asn = asns[i]})>>]
        top == take(count, sorted_by_count(peers_items))
    IN  [i \in 1..Len(top) |->
            [asn |-> top[i][1], count |-> top[i][2],
             name |-> asn_name_query(top[i][1], dns)]]

\* The dictionaries peers() and customers() make of a set of ASNs; the set
\* is iterated in the order in which its members were added.
asn_rows(asns, tbl, dns) ==
    [i \in 1..Len(asns) |->
        [asn |-> IF asns[i] = Null THEN _DEFAULT_ASN ELSE asns[i][1],
         name |-> asn_name_query(
                      IF asns[i] = Null THEN Some(_DEFAULT_ASN) ELSE asns[i],
                      dns),
         ipv4_count |-> count_asn_version(tbl, asns[i], 4),
         ipv6_count |-> count_asn_version(tbl, asns[i], 6)]]

peers(tbl, dns) == asn_rows(distinct(tbl, "next_hop_asn"), tbl, dns)

\* customers(): the list and the two totals.
customers(tbl, dns) ==
    LET customers_list ==
            {d \in tbl : \E i \in 1..Len(d.communities) :
                            d.communities[i] = _CUSTOMER_BGP_COMMUNITY}
        json_data == asn_rows(distinct(customers_list, "next_hop_asn"),
                              tbl, dns)
    IN  <<json_data,
          sum_seq([i \in 1..Len(json_data) |-> json_data[i].ipv4_count]),
          sum_seq([i \in 1..Len(json_data) |-> json_data[i].ipv6_count])>>

\* int(prefix['prefix'].split('/', 1)[1])
mask_of(d) == d.prefix.len

\* The rows of one IP version: list(Counter(masks).items()).
cidr_rows(tbl, version) ==
    LET docs == find({d \in tbl : d.ip_version = version})
        masks == unique([i \in 1..Len(docs) |-> mask_of(docs[i])])
    IN  [i \in 1..Len(masks) |->
            [mask |-> masks[i],
             count |-> Cardinality({d \in tbl : d.ip_version = version
                                               /\ mask_of(d) = masks[i]}),
             ip_version |-> version]]

\* int(prefix['origin_as']) of an IPv4 entry longer than /24 raises
\* TypeError when origin_as is None.
int_origin_as_raises(d) ==
    d.ip_version = 4 /\ mask_of(d) > 24 /\ d.origin_as = Null

cidr_breakdown(tbl) ==
    IF \E d \in tbl : int_origin_as_raises(d) THEN Raised
    ELSE PyList(cidr_rows(tbl, 4) \o cidr_rows(tbl, 6))

communities_count(tbl) ==
    LET communities == distinct_communities(tbl)
    IN  [i \in 1..Len(communities) |->
            [community |-> communities[i],
             count |-> Cardinality({d \in tbl :
                 \E j \in 1..Len(d.communities) :
                     regex_search(communities[i], d.communities[j])})]]

(***************************************************************************)
(* The Stats class.                                                        *)
(***************************************************************************)
Fields ==
    {"peer_counter", "ipv4_table_size", "ipv6_table_size",
     "nexthop_ip_counter", "avg_as_path_length", "top_n_peers",
     "cidr_breakdown", "communities", "peers", "customers",
     "customer_count", "customer_ipv4_prefixes", "customer_ipv6_prefixes",
     "timestamp"}

\* Stats.__init__ at time t.
Stats__init__(t) ==
    [peer_counter |-> PyInt(0), ipv4_table_size |-> PyInt(0),
     ipv6_table_size |-> PyInt(0), nexthop_ip_counter |-> PyInt(0),
     avg_as_path_length |-> PyInt(0), top_n_peers |-> None,
     cidr_breakdown |-> None, communities |-> None, peers |-> None,
     customers |-> None, customer_count |-> PyInt(0),
     customer_ipv4_prefixes |-> PyInt(0), customer_ipv6_prefixes |-> PyInt(0),
     timestamp |-> PyStr(epoch_to_date(t))]

\* The keys of the dictionary get_json builds, each with the attribute it
\* reads, in the order in which the attributes are read.
get_json_reads ==
    <<<<"peer_count", "peer_counter">>,
      <<"ipv4_table_size", "ipv4_table_size">>,
      <<"ipv6_table_size", "ipv6_table_size">>,
      <<"nexthop_ip_count", "nexthop_ip_counter">>,
      <<"avg_as_path_length", "avg_as_path_length">>,
      <<"top_n_peers", "top_n_peers">>,
      <<"cidr_breakdown", "cidr_breakdown">>,
      <<"communities", "communities">>,
      <<"peers", "peers">>,
      <<"customers", "customers">>,
      <<"customer_count", "customer_count">>,
      <<"customer_ipv4_prefixes", "customer_ipv4_prefixes">>,
      <<"customer_ipv6_prefixes", "customer_ipv6_prefixes">>,
      <<"timestamp", "timestamp">>>>

\* The same for get_data, which reads ipv6_table_size before
\* ipv4_table_size.
get_data_reads ==
    [i \in 1..Len(get_json_reads) |->
        IF i = 2 THEN get_json_reads[3]
        ELSE IF i = 3 THEN get_json_reads[2]
        ELSE get_json_reads[i]]

\* The bug of update_stats assigning the customers attribute, which belongs
\* to update_advanced_stats, where it means customer_count.
update_stats_attr_customers(k) ==
    CASE k = 1 -> "peer_counter"
      [] k = 2 -> "ipv4_table_size"
      [] k = 3 -> "ipv6_table_size"
      [] k = 4 -> "nexthop_ip_counter"
      [] k = 5 -> "timestamp"
      [] k = 6 -> "customers"
      [] k = 7 -> "customer_ipv4_prefixes"
      [] k = 8 -> "customer_ipv6_prefixes"

\* The attribute that statement k of update_stats assigns.
update_stats_attr(k) ==
    CASE k = 1 -> "peer_counter"
      [] k = 2 -> "ipv4_table_size"
      [] k = 3 -> "ipv6_table_size"
      [] k = 4 -> "nexthop_ip_counter"
      [] k = 5 -> "timestamp"
      [] k = 6 -> "customer_count"
      [] k = 7 -> "customer_ipv4_prefixes"
      [] k = 8 -> "customer_ipv6_prefixes"

\* The bug of adding to the table sizes (+=) instead of assigning them.
update_stats_value_accumulates(k, self, tbl, dns, t) ==
    CASE k = 1 -> PyInt(peer_count(tbl))
      [] k = 2 -> PyInt(self.ipv4_table_size.int + prefix_count(tbl, 4))
      [] k = 3 -> PyInt(self.ipv6_table_size.int + prefix_count(tbl, 6))
      [] k = 4 -> PyInt(nexthop_ip_count(tbl))
      [] k = 5 -> PyStr(epoch_to_date(t))
      [] k = 6 -> PyInt(Len(customers(tbl, dns)[1]))
      [] k = 7 -> PyInt(customers(tbl, dns)[2])
      [] k = 8 -> PyInt(customers(tbl, dns)[3])

\* The value that statement k of update_stats assigns: self is the Stats
\* object, tbl the collection, dns the resolver's state, t the time.
update_stats_value(k, self, tbl, dns, t) ==
    CASE k = 1 -> PyInt(peer_count(tbl))
      [] k = 2 -> PyInt(prefix_count(tbl, 4))
      [] k = 3 -> PyInt(prefix_count(tbl, 6))
      [] k = 4 -> PyInt(nexthop_ip_count(tbl))
      [] k = 5 -> PyStr(epoch_to_date(t))
      [] k = 6 -> PyInt(Len(customers(tbl, dns)[1]))
      [] k = 7 -> PyInt(customers(tbl, dns)[2])
      [] k = 8 -> PyInt(customers(tbl, dns)[3])

\* The attribute that statement k of update_advanced_stats assigns.
update_advanced_stats_attr(k) ==
    CASE k = 1 -> "avg_as_path_length"
      [] k = 2 -> "top_n_peers"
      [] k = 3 -> "cidr_breakdown"
      [] k = 4 -> "peers"
      [] k = 5 -> "customers"
      [] k = 6 -> "communities"
      [] k = 7 -> "timestamp"

\* The value that statement k of update_advanced_stats assigns, or Raised.
update_advanced_stats_value(k, self, tbl, dns, t) ==
    CASE k = 1 -> avg_as_path_length(tbl)
      [] k = 2 -> PyList(top_peers(5, tbl, dns))
      [] k = 3 -> cidr_breakdown(tbl)
      [] k = 4 -> PyList(peers(tbl, dns))
      [] k = 5 -> PyList(customers(tbl, dns)[1])
      [] k = 6 -> PyList(communities_count(tbl))
      [] k = 7 -> PyStr(epoch_to_date(t))

(***************************************************************************)
(* The threads that refresh myStats: the two started at import, and the    *)
(* worker of each of the two jobs of the BackgroundScheduler.              *)
(***************************************************************************)
Tasks == {"update_stats", "update_advanced_stats"}
Threads == {"thread_stats", "thread_advanced", "job_stats", "job_advanced"}
Jobs == {"job_stats", "job_advanced"}

Task(th) ==
    IF th \in {"thread_stats", "job_stats"}
    THEN "update_stats" ELSE "update_advanced_stats"

OtherTask(T) ==
    IF T = "update_stats" THEN "update_advanced_stats" ELSE "update_stats"

Statements(T) == IF T = "update_stats" THEN 8 ELSE 7

\* Another run of the same task is between its first and last statement.
Overlapped(th) ==
    \E o \in Threads \ {th} : Task(o) = Task(th) /\ pc[o] > 1

(***************************************************************************)
(* History of each task, to compare two runs that follow each other with   *)
(* nothing else in between: phase is "first" while such a run executes,    *)
(* "ended" once it has returned or raised (snap is then myStats), "second" *)
(* while the next run of the task executes, "again" once that one has      *)
(* ended too, and "idle" as soon as the other task executes a statement    *)
(* or two runs of the task overlap.                                        *)
(* dns tells whether the resolver has stayed as it was since the first     *)
(* run began.                                                              *)
(***************************************************************************)
NoHistory == [phase |-> "idle", snap |-> None, dns |-> FALSE]

HistoryAfter(th, raised, stats) ==
    LET T == Task(th)
        h == last[T]
        begun == IF pc[th] # 1 THEN h
                 ELSE IF h.phase \in {"ended", "again"}
                 THEN [h EXCEPT !.phase = "second"]
                 ELSE [phase |-> "first", snap |-> None, dns |-> TRUE]
        mine == IF Overlapped(th) \/ begun.phase = "idle"
                THEN NoHistory
                ELSE IF ~raised /\ pc[th] # Statements(T) THEN begun
                ELSE [begun EXCEPT
                        !.phase = IF @ = "second" THEN "again" ELSE "ended",
                        !.snap = stats]
    IN  [last EXCEPT ![T] = mine, ![OtherTask(T)] = NoHistory]

(***************************************************************************)
(* The collection the statistics are computed from.                       *)
(***************************************************************************)
net4_10 == {5, 7}                                      \* 10.0.0.0
net6_2001_db8 == {3, 16, 21, 22, 24, 25, 27, 28, 29}   \* 2001:db8::

RoutePool ==
    <<Route(1, [v |-> 4, addr |-> net4_10, len |-> 8],
            Some(174), Some(174), "192.0.2.1", Some(<<174, 174>>),
            <<_CUSTOMER_BGP_COMMUNITY>>),
      Route(2, [v |-> 4, addr |-> net4_10, len |-> 25],
            Null, Null, "192.0.2.2", Null, <<>>),
      Route(3, [v |-> 6, addr |-> net6_2001_db8, len |-> 32],
            Some(3356), Some(174), "2001:db8::1", Some(<<174, 3356>>),
            <<_CUSTOMER_BGP_COMMUNITY \o <<"1">>>>)>>

Tables(pool) ==
    {S \in SUBSET {pool[i] : i \in 1..Len(pool)} :
        Cardinality(S) <= MaxTableSize}

(***************************************************************************)
(* The state after the module is imported: myStats constructed, the two    *)
(* threads started, the two jobs added and the scheduler started.          *)
(***************************************************************************)
NoRead == [handler |-> "none", out |-> <<>>, served |-> 0,
           warm |-> [T \in Tasks |-> FALSE]]
NoRequest == [none |-> TRUE]

InitStats ==
    /\ now = 0
    /\ dnsUp = TRUE
    /\ myStats = Stats__init__(0)
    /\ pc = [th \in Threads |-> IF th \in Jobs THEN 0 ELSE 1]
    /\ ticks = [j \in Jobs |-> 0]
    /\ flaps = 0
    /\ rd = NoRead
    /\ last = [T \in Tasks |-> NoHistory]

Init ==
    /\ table \in Tables(RoutePool)
    /\ InitStats
    /\ req = NoRequest
    /\ res = None

\* What has happened around the program so far: interval ticks, seconds
\* passed, changes of the resolver's state.
Events == ticks["job_stats"] + ticks["job_advanced"] + now + flaps

(***************************************************************************)
(* A thread executes the statement of its refresh method it is at.         *)
(***************************************************************************)
update_stats(th) ==
    /\ Task(th) = "update_stats"
    /\ pc[th] >= 1
    /\ LET k == pc[th]
           attr == update_stats_attr(k)
           value == update_stats_value(k, myStats, table, dnsUp, now)
       IN  /\ myStats' = [myStats EXCEPT ![attr] = value]
           /\ pc' = [pc EXCEPT ![th] = IF k = Statements("update_stats")
                                       THEN 0 ELSE k + 1]
           /\ last' = HistoryAfter(th, FALSE, myStats')
    /\ UNCHANGED <<table, now, dnsUp, ticks, flaps, rd, req, res>>

\* An exception ends the thread (or the job's run) where it is raised: pc
\* keeps the statement, negated.
update_advanced_stats(th) ==
    /\ Task(th) = "update_advanced_stats"
    /\ pc[th] >= 1
    /\ LET k == pc[th]
           attr == update_advanced_stats_attr(k)
           value == update_advanced_stats_value(k, myStats, table, dnsUp, now)
       IN  IF value = Raised
           THEN /\ pc' = [pc EXCEPT ![th] = -k]
                /\ last' = HistoryAfter(th, TRUE, myStats)
                /\ UNCHANGED myStats
           ELSE /\ myStats' = [myStats EXCEPT ![attr] = value]
                /\ pc' = [pc EXCEPT
                            ![th] = IF k = Statements("update_advanced_stats")
                                    THEN 0 ELSE k + 1]
                /\ last' = HistoryAfter(th, FALSE, myStats')
    /\ UNCHANGED <<table, now, dnsUp, ticks, flaps, rd, req, res>>

(***************************************************************************)
(* sched.add_job(method, 'interval', seconds=...): an interval of the job  *)
(* has passed.  The scheduler submits a run to its worker unless a run of  *)
(* the job is still executing (max_instances is 1 by default), in which    *)
(* case the tick is skipped.  The threads started at import are not the    *)
(* scheduler's and are not counted.  How long an interval or a statement   *)
(* takes is left open: a tick may come at any moment.                      *)
(***************************************************************************)
add_job(job) ==
    /\ Events < MaxEvents
    /\ ticks' = [ticks EXCEPT ![job] = @ + 1]
    /\ pc' = [pc EXCEPT ![job] = IF @ <= 0 THEN 1 ELSE @]
    /\ UNCHANGED <<table, now, dnsUp, myStats, flaps, rd, last, req, res>>

(***************************************************************************)
(* The handlers that read myStats: get_stats calls get_json, hello_index   *)
(* calls get_data.  Each evaluates the attributes one after the other.     *)
(* With each value the model notes whether the run of the thread started   *)
(* at import has assigned the attribute (assigned), and with the response  *)
(* which tasks had finished a run when it was complete (warm); both are    *)
(* meant for the time before the first interval tick.                      *)
(***************************************************************************)
\* Thread th has executed statement k of its method.
Passed(th, k) == pc[th] > k \/ pc[th] = 0 \/ pc[th] < -k

Assigned(attr) ==
    \/ \E k \in 1..Statements("update_stats") :
          update_stats_attr(k) = attr /\ Passed("thread_stats", k)
    \/ \E k \in 1..Statements("update_advanced_stats") :
          update_advanced_stats_attr(k) = attr
          /\ Passed("thread_advanced", k)

request(handler) ==
    /\ rd.handler = "none" \/ Len(rd.out) = Len(get_json_reads)
    /\ rd.served < MaxReads
    /\ rd' = [NoRead EXCEPT !.handler = handler, !.served = rd.served + 1]
    /\ UNCHANGED <<table, now, dnsUp, myStats, pc, ticks, flaps, last, req,
                   res>>

Read(reads) ==
    /\ Len(rd.out) < Len(reads)
    /\ LET key == reads[Len(rd.out) + 1][1]
           attr == reads[Len(rd.out) + 1][2]
       IN  rd' = [rd EXCEPT
                    !.out = Append(@, [key |-> key, value |-> myStats[attr],
                                       assigned |-> Assigned(attr)]),
                    !.warm = [T \in Tasks |->
                                \E th \in Threads \ Jobs :
                                    Task(th) = T /\ pc[th] = 0]]
    /\ UNCHANGED <<table, now, dnsUp, myStats, pc, ticks, flaps, last, req,
                   res>>

get_json == rd.handler = "get_json" /\ Read(get_json_reads)

get_data == rd.handler = "get_data" /\ Read(get_data_reads)

(***************************************************************************)
(* The environment: time passes, the resolver starts or stops answering.   *)
(* hello.py only reads the collection, which another program fills; it is  *)
(* the same throughout a behaviour.                                        *)
(***************************************************************************)
Tick ==
    /\ Events < MaxEvents
    /\ now' = now + 1
    /\ UNCHANGED <<table, dnsUp, myStats, pc, ticks, flaps, rd, last, req,
                   res>>

DnsFlap ==
    /\ Events < MaxEvents
    /\ flaps' = flaps + 1
    /\ dnsUp' = ~dnsUp
    /\ last' = [T \in Tasks |-> [last[T] EXCEPT !.dns = FALSE]]
    /\ UNCHANGED <<table, now, myStats, pc, ticks, rd, req, res>>

(***************************************************************************)
(* The refresh of myStats: every thread, the scheduler, the environment.   *)
(***************************************************************************)
Next ==
    \/ \E th \in Threads : update_stats(th)
    \/ \E th \in Threads : update_advanced_stats(th)
    \/ \E job \in Jobs : add_job(job)
    \/ Tick
    \/ DnsFlap

Spec == Init /\ [][Next]_vars

(***************************************************************************)
(* The stats endpoints before the first interval tick: the two threads     *)
(* started at import and a request handler.                                *)
(***************************************************************************)
NextServe ==
    \/ \E th \in Threads \ Jobs : update_stats(th)
    \/ \E th \in Threads \ Jobs : update_advanced_stats(th)
    \/ \E handler \in {"get_json", "get_data"} : request(handler)
    \/ get_json
    \/ get_data

SpecServe == Init /\ [][NextServe]_vars
(***************************************************************************)
(* The lookup endpoint /bgp/api/v1.0/ip/<ip>.  The addresses asked for     *)
(* have their one-bits among bit 8 and bit 32 (IPv4), bit 48 and bit 96    *)
(* (IPv6), or are no address at all; the collection holds networks around  *)
(* them, of mask lengths on both sides of what find_network probes.        *)
(***************************************************************************)
MaxLookupTableSize == 2     \* documents in the collection of a lookup

NotAnAddress == [v |-> 0, bits |-> {}]

LookupAddresses ==
    {[v |-> 4, bits |-> B] : B \in SUBSET {8, 32}}
    \cup {[v |-> 6, bits |-> B] : B \in SUBSET {48, 96}}
    \cup {NotAnAddress}

LookupRoute(id, v, addr, len) ==
    Route(id, [v |-> v, addr |-> addr, len |-> len],
          Some(3356), Some(174), "192.0.2.1", Some(<<174, 3356>>), <<>>)

LookupPool ==
    <<LookupRoute(1, 4, {}, 0),
      LookupRoute(2, 4, {8}, 8),
      LookupRoute(3, 4, {}, 8),
      LookupRoute(4, 4, {8}, 25),
      LookupRoute(5, 4, {8, 32}, 32),
      LookupRoute(6, 4, {32}, 32),
      LookupRoute(7, 6, {}, 0),
      LookupRoute(8, 6, {}, 16),
      LookupRoute(9, 6, {}, 32),
      LookupRoute(10, 6, {48}, 48),
      LookupRoute(11, 6, {}, 48),
      LookupRoute(12, 6, {48}, 64),
      LookupRoute(13, 6, {48, 96}, 96),
      LookupRoute(14, 6, {48, 96}, 128)>>

LookupTables ==
    {S \in SUBSET {LookupPool[i] : i \in 1..Len(LookupPool)} :
        Cardinality(S) <= MaxLookupTableSize}

\* The netmask values at whose probe the store may fail.
FailChoices == {{}, {32}, {8}, {0}}

Requests ==
    [ip : LookupAddresses, fails : FailChoices, answered : {FALSE}]

InitLookup ==
    /\ table \in LookupTables
    /\ InitStats
    /\ req \in Requests
    /\ res = None

\* get_ip(ip): the response is {} when find_network returns None and is
\* built from the document otherwise; an exception of find_network would
\* pass through the handler.
get_ip ==
    /\ req # NoRequest
    /\ ~req.answered
    /\ LET network == find_network(req.ip, 32, table, req.fails)
       IN  res' = [network |-> network,
                   json |-> IF network = None THEN <<>>
                            ELSE IF network = Raised THEN Raised
                            ELSE <<network.origin_as, network.nexthop,
                                   network.as_path, network.prefix,
                                   network.next_hop_asn,
                                   asn_name_query(network.origin_as, dnsUp),
                                   network.communities>>]
    /\ req' = [req EXCEPT !.answered = TRUE]
    /\ UNCHANGED <<table, now, dnsUp, myStats, pc, ticks, flaps, rd, last>>

NextLookup == get_ip

SpecLookup == InitLookup /\ [][NextLookup]_vars

(***************************************************************************)
(* What the lookup is expected to find, stated on the collection.          *)
(***************************************************************************)
\* The network of mask length len around address a.
NetworkOf(a, len) ==
    [v |-> a.v, addr |-> {b \in a.bits : b <= len}, len |-> len]

\* Document d covers address a.
Covers(d, a) ==
    /\ d.prefix.v = a.v
    /\ d.prefix.len \in 0..max_prefixlen(a.v)
    /\ d.prefix = NetworkOf(a, d.prefix.len)

\* The documents of the collection that cover a with a mask length in lens.
Covering(a, lens) == {d \in table : Covers(d, a) /\ d.prefix.len \in lens}

\* Of these the one with the longest mask, or None when there is none.
MostSpecific(a, lens) ==
    IF Covering(a, lens) = {} THEN None
    ELSE CHOOSE d \in Covering(a, lens) :
            \A e \in Covering(a, lens) : e.prefix.len <= d.prefix.len

Answered == req # NoRequest /\ req.answered

\* The mask length probed at netmask k for an address of version v.
ProbedLen(v, k) == IF v = 4 THEN k ELSE k + 32

\* A probe at which the store fails is reached: no probe before it hits.
FailureReached ==
    \E k \in req.fails :
        /\ k \in 0..32
        /\ Covering(req.ip, {ProbedLen(req.ip.v, j) : j \in (k + 1)..32}) = {}

(***************************************************************************)
(* Properties of the lookup (SpecLookup).                                  *)
(***************************************************************************)
\* C3: for a valid IPv4 address, find_network(ip, 32) returns the stored
\* entry that covers ip with the greatest mask length among all stored
\* prefixes covering ip (None when none covers it), whenever no probe it
\* makes fails.
C3_LongestMatchIPv4 ==
    (Answered /\ req.ip.v = 4 /\ ~FailureReached)
        => res.network = MostSpecific(req.ip, 0..32)

\* An IPv4 lookup answered with the longer of two covering entries.
C3_Witness ==
    /\ Answered /\ req.ip.v = 4 /\ req.fails = {}
    /\ Cardinality(Covering(req.ip, 0..32)) = 2
    /\ res.network \in table
    /\ \E d \in table : d # res.network /\ d.prefix.len < res.network.prefix.len

\* C4: find_network never raises and always returns: None for an address
\* no stored entry covers, None for an input that is no IPv4 or IPv6
\* address, and None when a probe it makes fails.
C4_NeverRaises ==
    Answered =>
        /\ res.network # Raised
        /\ res.network = None \/ res.network \in table
        /\ ip_address(req.ip) = Raised => res.network = None
        /\ (ip_address(req.ip) # Raised
              /\ Covering(req.ip, 0..max_prefixlen(req.ip.v)) = {})
           => res.network = None
        /\ (ip_address(req.ip) # Raised /\ FailureReached)
           => res.network = None

\* A lookup whose probe failed although an entry covers the address, and
\* that answered None.
C4_Witness ==
    /\ Answered /\ ip_address(req.ip) # Raised
    /\ FailureReached
    /\ Covering(req.ip, 0..max_prefixlen(req.ip.v)) # {}
    /\ res.network = None

\* C5 (as stated): for a valid IPv6 address, find_network(ip, 32) probes
\* every mask length from 128 down to 0 and so returns the stored entry
\* that covers ip with the greatest mask length, whatever that length is.
C5_LongestMatchIPv6 ==
    (Answered /\ req.ip.v = 6 /\ ~FailureReached)
        => res.network = MostSpecific(req.ip, 0..128)

(***************************************************************************)
(* Properties of the stats endpoints before the first tick (SpecServe).    *)
(***************************************************************************)
FastKeys ==
    {"peer_count", "ipv4_table_size", "ipv6_table_size", "nexthop_ip_count",
     "customer_count", "customer_ipv4_prefixes", "customer_ipv6_prefixes"}

SlowKeys ==
    {"avg_as_path_length", "top_n_peers", "cidr_breakdown", "peers",
     "customers", "communities"}

ListKeys ==
    {"top_n_peers", "cidr_breakdown", "communities", "peers", "customers"}

\* The handler has read every attribute: its response is complete.
Complete == rd.handler # "none" /\ Len(rd.out) = Len(get_json_reads)

\* C1 (as stated): in a complete response the values of the fast fields
\* all come from one run of update_stats and the values of the slow fields
\* all come from one run of update_advanced_stats (here: all from
\* Stats.__init__ or all from the run started at import).
C1_OneCyclePerCadence ==
    Complete =>
        \A i, j \in 1..Len(rd.out) :
            (\/ {rd.out[i].key, rd.out[j].key} \subseteq FastKeys
             \/ {rd.out[i].key, rd.out[j].key} \subseteq SlowKeys)
            => rd.out[i].assigned = rd.out[j].assigned

\* C7 (as stated): a response completed before the first run of
\* update_stats has finished holds zero for every fast count, and one
\* completed before the first run of update_advanced_stats has finished
\* holds an empty list for every slow list field.
C7_DefaultsBeforeFirstRun ==
    Complete =>
        \A i \in 1..Len(rd.out) :
            /\ (~rd.warm["update_stats"] /\ rd.out[i].key \in FastKeys)
               => rd.out[i].value = PyInt(0)
            /\ (~rd.warm["update_advanced_stats"]
                  /\ rd.out[i].key \in ListKeys)
               => rd.out[i].value = PyList(<<>>)

(***************************************************************************)
(* Properties of the refresh (Spec).                                       *)
(***************************************************************************)
\* The runs of task T that have started and not ended.
InFlight(T) == {th \in Threads : Task(th) = T /\ pc[th] >= 1}

\* C2 (as stated): at most one run of update_stats and at most one run of
\* update_advanced_stats is in flight in every reachable state.
C2_AtMostOneRunInFlight ==
    \A T \in Tasks : Cardinality(InFlight(T)) <= 1

\* C6 (as stated): whatever the collection holds, no run of
\* update_advanced_stats raises, and once the run started at import has
\* ended every slow field has been assigned.
C6_SlowCycleCompletes ==
    /\ \A th \in Threads :
          Task(th) = "update_advanced_stats" => pc[th] >= 0
    /\ pc["thread_advanced"] = 0 =>
          \A k \in 1..Statements("update_advanced_stats") :
              myStats[update_advanced_stats_attr(k)] # None

\* The value get_json and get_data give under key for the attributes stats.
ValueOf(stats, key) ==
    LET i == CHOOSE n \in 1..Len(get_json_reads) : get_json_reads[n][1] = key
    IN  stats[get_json_reads[i][2]]

Keys == {get_json_reads[i][1] : i \in 1..Len(get_json_reads)}

\* A run of task T ends, by returning or by raising, that followed another
\* run of T with nothing else in between.
RunsTwice(T) == last[T].phase = "second" /\ last'[T].phase = "again"

\* C8 (as stated): when a task has run twice in a row on the unchanged
\* collection with no other task running in between, get_json gives after
\* the second run what it gave after the first, under every key.
C8_IdenticalInEveryField ==
    [][\A T \in Tasks :
          RunsTwice(T) =>
              \A key \in Keys :
                  ValueOf(last'[T].snap, key) = ValueOf(last[T].snap, key)
      ]_vars

\* C8 (amended): the same under every key except timestamp, when the
\* resolver has stayed as it was since the first of the two runs began.
C8_IdenticalExceptTimestamp ==
    [][\A T \in Tasks :
          (RunsTwice(T) /\ last'[T].dns) =>
              \A key \in Keys \ {"timestamp"} :
                  ValueOf(last'[T].snap, key) = ValueOf(last[T].snap, key)
      ]_vars

\* update_advanced_stats has run to its last statement twice in a row,
\* alone and with the same resolver.
C8_Witness ==
    /\ last["update_advanced_stats"].phase = "again"
    /\ last["update_advanced_stats"].dns
    /\ pc["thread_advanced"] = 0
    /\ pc["job_advanced"] = 0
    /\ ticks["job_advanced"] > 0

\* C9 (as stated): once update_stats has assigned peer_counter, it is the
\* number of distinct non-null next_hop_asn values of the collection.
C9_DistinctNonNull ==
    pc["thread_stats"] # 1 =>
        myStats.peer_counter =
            PyInt(Cardinality({d.next_hop_asn : d \in table} \ {Null}))

\* The attributes each task assigns.
StatsWrites ==
    {update_stats_attr(k) : k \in 1..Statements("update_stats")}

AdvancedWrites ==
    {update_advanced_stats_attr(k) :
        k \in 1..Statements("update_advanced_stats")}

\* A thread executes a statement of task T.
Executes(T) ==
    \E th \in Threads : Task(th) = T /\ pc[th] >= 1 /\ pc'[th] # pc[th]

\* Every attribute in F is left as it is.
Keeps(F) == \A f \in F : myStats'[f] = myStats[f]

\* C10 (as stated): update_stats leaves every attribute unchanged that
\* update_advanced_stats assigns, and the other way round, timestamp
\* included.
C10_OneProducerPerField ==
    [][/\ Executes("update_stats") => Keeps(AdvancedWrites)
       /\ Executes("update_advanced_stats") => Keeps(StatsWrites)
      ]_vars

\* C10 (amended): every attribute is assigned by one of the two tasks,
\* timestamp alone by both, and each task leaves unchanged every attribute
\* other than timestamp that the other assigns.
C10_OneProducerExceptTimestamp ==
    [][/\ StatsWrites \cup AdvancedWrites = Fields
       /\ StatsWrites \cap AdvancedWrites = {"timestamp"}
       /\ Executes("update_stats") => Keeps(AdvancedWrites \ {"timestamp"})
       /\ Executes("update_advanced_stats")
             => Keeps(StatsWrites \ {"timestamp"})
      ]_vars

\* Both tasks have assigned the attributes that are theirs and the clock
\* has advanced.
C10_Witness ==
    /\ pc["thread_stats"] = 0
    /\ pc["thread_advanced"] = 0
    /\ myStats.communities # None
    /\ myStats.timestamp # PyStr(epoch_to_date(0))

====
